---------------------------- MODULE Spec2Model ----------------------------
(***************************************************************************)
(* Model of ocr_dni_engine.py: the field-extraction parser for the text    *)
(* recognised on a Peruvian DNI (parsear_dni), its two helpers             *)
(* (corregir_fecha_ocr, separar_nombres_pegados) and the part of           *)
(* extraer_datos_dni that turns the parser's dict into the returned value. *)
(*                                                                         *)
(* A Python str is a sequence of one-character strings.  The six accented  *)
(* capitals of the source's character classes are written "A'", "E'",      *)
(* "I'", "O'", "U'" and "N~": each stands for ONE character.               *)
(* A Python dict is a function whose DOMAIN is the set of keys present.    *)
(***************************************************************************)
EXTENDS Integers, Sequences, FiniteSets, TLC

VARIABLES
  texto_ocr,              \* the text handed to parsear_dni (texto_completo)
  hoy,                    \* the day datetime.now() falls on, as an index of Calendario
  pc,                     \* the position of the running call
  lineas,                 \* parsear_dni's local list of stripped, non-empty lines
  datos,                  \* parsear_dni's dict under construction
  apellidos_encontrados,  \* parsear_dni's local list of accepted surnames
  historial,              \* what each finished call returned, and on which day
  llamadas,               \* number of calls of extraer_datos_dni started on texto_ocr
  entrada,                \* argument of a helper called on its own
  salida                  \* its return value

vars == <<texto_ocr, hoy, pc, lineas, datos, apellidos_encontrados,
          historial, llamadas, entrada, salida>>

---------------------------------------------------------------------------
(* Python values *)

\* None, and equally the empty str: both are falsy where the source tests them.
None == <<>>

\* The empty dict.
DictVacio == [k \in {} |-> None]

\* d[k] = v
Poner(d, k, v) == [x \in DOMAIN d \cup {k} |-> IF x = k THEN v ELSE d[x]]

Min(S) == CHOOSE x \in S : \A y \in S : x <= y

---------------------------------------------------------------------------
(* Character classes of the regular expressions *)

Digitos == <<"0","1","2","3","4","5","6","7","8","9">>
Mayusculas == <<"A","B","C","D","E","F","G","H","I","J","K","L","M",
                "N","O","P","Q","R","S","T","U","V","W","X","Y","Z">>
Minusculas == <<"a","b","c","d","e","f","g","h","i","j","k","l","m",
                "n","o","p","q","r","s","t","u","v","w","x","y","z">>
Acentuadas == {"A'","E'","I'","O'","U'","N~"}

\* \d
EsDigito(c) == \E i \in 1..Len(Digitos) : Digitos[i] = c
\* [A-Z]
EsAZ(c) == \E i \in 1..Len(Mayusculas) : Mayusculas[i] = c
\* [a-z]
Esaz(c) == \E i \in 1..Len(Minusculas) : Minusculas[i] = c
\* [A-ZÁÉÍÓÚÑ]
EsMayuscula(c) == EsAZ(c) \/ c \in Acentuadas
\* \s
EsEspacio(c) == c \in {" ", "\n", "\t"}
\* [A-ZÁÉÍÓÚÑ\s]
EsMayusculaOEspacio(c) == EsMayuscula(c) \/ EsEspacio(c)
\* \w
EsPalabra(c) == EsDigito(c) \/ EsAZ(c) \/ Esaz(c) \/ c \in Acentuadas \/ c = "_"

\* int() of one digit
ValorDigito(c) == (CHOOSE i \in 1..Len(Digitos) : Digitos[i] = c) - 1

\* int() of a str of digits
RECURSIVE Entero(_)
Entero(s) ==
  IF Len(s) = 0 THEN 0
  ELSE 10 * Entero(SubSeq(s, 1, Len(s) - 1)) + ValorDigito(s[Len(s)])

\* str.upper() of one character, and the folding re.IGNORECASE applies
MayusculaDe(c) ==
  IF Esaz(c) THEN Mayusculas[CHOOSE i \in 1..Len(Minusculas) : Minusculas[i] = c]
  ELSE c

\* str.upper()
Upper(s) == [i \in 1..Len(s) |-> MayusculaDe(s[i])]

---------------------------------------------------------------------------
(* str operations *)

\* s[i-1:j] clipped as Python slices are
Tramo(s, i, j) == IF i > j THEN <<>> ELSE SubSeq(s, i, j)

\* s.startswith(w)
EmpiezaCon(s, w) == Len(w) <= Len(s) /\ SubSeq(s, 1, Len(w)) = w

\* w occurs in s at position i
EnPos(s, w, i) ==
  /\ i >= 1 /\ i + Len(w) - 1 <= Len(s)
  /\ \A k \in 1..Len(w) : s[i + k - 1] = w[k]

\* w in s
Contiene(s, w) == \E i \in 1..Len(s) : EnPos(s, w, i)

\* re.search(w, s, re.IGNORECASE) for a literal w written in capitals
ContieneIC(s, w) == Contiene(Upper(s), w)

\* s.strip()
RECURSIVE StripIzq(_)
StripIzq(s) ==
  IF Len(s) > 0 /\ EsEspacio(s[1]) THEN StripIzq(Tail(s)) ELSE s

RECURSIVE StripDer(_)
StripDer(s) ==
  IF Len(s) > 0 /\ EsEspacio(s[Len(s)]) THEN StripDer(SubSeq(s, 1, Len(s) - 1)) ELSE s

Strip(s) == StripDer(StripIzq(s))

\* s.split('\n')
RECURSIVE Split(_)
Split(s) ==
  IF \A i \in 1..Len(s) : s[i] # "\n" THEN <<s>>
  ELSE LET i == Min({k \in 1..Len(s) : s[k] = "\n"})
       IN  <<Tramo(s, 1, i - 1)>> \o Split(Tramo(s, i + 1, Len(s)))

\* '\n'.join(bloques)
RECURSIVE Join(_)
Join(bloques) ==
  IF Len(bloques) = 0 THEN <<>>
  ELSE IF Len(bloques) = 1 THEN bloques[1]
  ELSE bloques[1] \o <<"\n">> \o Join(Tail(bloques))

\* [l.strip() for l in texto.split('\n') if l.strip()]
RECURSIVE NoVacias(_)
NoVacias(ls) ==
  IF Len(ls) = 0 THEN <<>>
  ELSE IF Strip(ls[1]) = <<>> THEN NoVacias(Tail(ls))
  ELSE <<Strip(ls[1])>> \o NoVacias(Tail(ls))

Lineas(texto) == NoVacias(Split(texto))

\* x in lista
EnLista(lista, x) == \E i \in 1..Len(lista) : lista[i] = x

---------------------------------------------------------------------------
(* datetime *)

EsBisiesto(y) == (y % 4 = 0) /\ ((y % 100 # 0) \/ (y % 400 = 0))

DiasDelMes(y, m) ==
  IF m = 2 THEN (IF EsBisiesto(y) THEN 29 ELSE 28)
  ELSE IF m \in {4, 6, 9, 11} THEN 30 ELSE 31

\* datetime(y, m, d) does not raise ValueError
FechaValida(y, m, d) ==
  /\ y >= 1 /\ y <= 9999
  /\ m >= 1 /\ m <= 12
  /\ d >= 1 /\ d <= DiasDelMes(y, m)

RECURSIVE DiasAntesDelMes(_, _)
DiasAntesDelMes(y, m) ==
  IF m <= 1 THEN 0 ELSE DiasAntesDelMes(y, m - 1) + DiasDelMes(y, m - 1)

\* datetime(y, m, d).toordinal()
Ordinal(y, m, d) ==
  (y - 1) * 365 + ((y - 1) \div 4) - ((y - 1) \div 100) + ((y - 1) \div 400)
    + DiasAntesDelMes(y, m) + d

\* The days datetime.now() is read on, in the order the clock passes them:
\* <<year, month, day>>.
Calendario == << <<2025, 11, 14>>, <<2026, 11, 4>> >>

OrdinalDeHoy(h) == Ordinal(Calendario[h][1], Calendario[h][2], Calendario[h][3])

---------------------------------------------------------------------------
(* 2) corregir_fecha_ocr *)

\* The source's code with the month correction left out.
corregir_fecha_ocr_sin_mes(fecha_str) ==
  IF Len(fecha_str) # 8 THEN None
  ELSE
    LET dia0 == SubSeq(fecha_str, 1, 2)
        mes  == SubSeq(fecha_str, 3, 4)
        anio0 == SubSeq(fecha_str, 5, 8)
        dia  == IF dia0[1] = "3" /\ Entero(dia0) > 31 THEN <<"0", dia0[2]>> ELSE dia0
        anio == IF anio0 = <<"2","0","6","2">> THEN <<"2","0","0","2">>
                ELSE IF anio0 = <<"2","9","1","9">> THEN <<"2","0","1","9">> ELSE anio0
    IN  IF FechaValida(Entero(anio), Entero(mes), Entero(dia))
        THEN dia \o <<"/">> \o mes \o <<"/">> \o anio
        ELSE None

\* Called with a token that matched \d{8} (line 223), so every int() succeeds
\* and the bare except catches only datetime's ValueError.
corregir_fecha_ocr(fecha_str) ==
  IF Len(fecha_str) # 8 THEN None
  ELSE
    LET dia0 == SubSeq(fecha_str, 1, 2)
        mes0 == SubSeq(fecha_str, 3, 4)
        anio0 == SubSeq(fecha_str, 5, 8)
        dia  == IF dia0[1] = "3" /\ Entero(dia0) > 31 THEN <<"0", dia0[2]>> ELSE dia0
        mes  == IF mes0 = <<"1","9">> THEN <<"1","0">> ELSE mes0
        anio == IF anio0 = <<"2","0","6","2">> THEN <<"2","0","0","2">>
                ELSE IF anio0 = <<"2","9","1","9">> THEN <<"2","0","1","9">> ELSE anio0
    IN  IF FechaValida(Entero(anio), Entero(mes), Entero(dia))
        THEN dia \o <<"/">> \o mes \o <<"/">> \o anio
        ELSE None

---------------------------------------------------------------------------
(* 2) separar_nombres_pegados *)

nombres_comunes ==
  << <<"J","O","R","G","E">>, <<"L","U","I","S">>, <<"C","A","R","L","O","S">>, <<"J","U","A","N">>, <<"J","O","S","E">>, <<"M","A","R","I","A">>,
     <<"I","S","A","B","E","L">>, <<"R","O","S","A">>, <<"A","N","A">>, <<"C","A","R","M","E","N">>, <<"M","O","N","I","C","A">>, <<"M","I","L","A","G","R","O","S">>,
     <<"P","A","T","R","I","C","I","A">>, <<"V","I","C","T","O","R","I","A">>, <<"E","L","E","N","A">>, <<"S","A","N","D","R","A">>, <<"D","I","A","N","A">>, <<"A","D","R","I","A","N">>,
     <<"P","E","D","R","O">>, <<"P","A","B","L","O">>, <<"M","I","G","U","E","L">>, <<"A","N","G","E","L">>, <<"A","N","T","O","N","I","O">>, <<"M","A","N","U","E","L">>,
     <<"R","I","C","A","R","D","O">>, <<"R","O","B","E","R","T","O">>, <<"D","A","N","I","E","L">>, <<"D","A","V","I","D">>, <<"F","R","A","N","C","I","S","C","O">> >>

\* The loop from entry k of nombres_comunes on, splitting at the first entry
\* that is a proper prefix whatever is left over.
RECURSIVE separar_desde_sin_resto(_, _)
separar_desde_sin_resto(nombre, k) ==
  IF k > Len(nombres_comunes) THEN nombre
  ELSE
    LET nombre_comun == nombres_comunes[k]
    IN  IF EmpiezaCon(nombre, nombre_comun) /\ Len(nombre) > Len(nombre_comun)
        THEN nombre_comun \o <<" ">>
               \o SubSeq(nombre, Len(nombre_comun) + 1, Len(nombre))
        ELSE separar_desde_sin_resto(nombre, k + 1)

\* The for loop of lines 80-87, from entry k of nombres_comunes on.
RECURSIVE separar_desde(_, _)
separar_desde(nombre, k) ==
  IF k > Len(nombres_comunes) THEN nombre
  ELSE
    LET nombre_comun == nombres_comunes[k]
    IN  IF EmpiezaCon(nombre, nombre_comun) /\ Len(nombre) > Len(nombre_comun)
        THEN LET resto == SubSeq(nombre, Len(nombre_comun) + 1, Len(nombre))
             IN  IF EnLista(nombres_comunes, resto) \/ Len(resto) >= 3
                 THEN nombre_comun \o <<" ">> \o resto
                 ELSE separar_desde(nombre, k + 1)
        ELSE separar_desde(nombre, k + 1)

separar_nombres_pegados(nombre) == separar_desde(nombre, 1)

---------------------------------------------------------------------------
(* 3) parsear_dni: regular expressions shared by the sections *)

MinDe(a, b) == IF a <= b THEN a ELSE b
MaxDe(a, b) == IF a >= b THEN a ELSE b

\* w (written in capitals) occurs in s at position i, under re.IGNORECASE
EnPosIC(s, w, i) ==
  /\ i >= 1 /\ i + Len(w) - 1 <= Len(s)
  /\ \A k \in 1..Len(w) : MayusculaDe(s[i + k - 1]) = w[k]

\* \b between t[i-1] and t[i] (1 <= i <= Len(t)+1): exactly one side is \w
Limite(t, i) ==
  (i > 1 /\ i - 1 <= Len(t) /\ EsPalabra(t[i - 1])) # (i >= 1 /\ i <= Len(t) /\ EsPalabra(t[i]))

\* \d{8} at position j
OchoDigitosEn(t, j) == j >= 1 /\ j + 7 <= Len(t) /\ \A k \in 0..7 : EsDigito(t[j + k])

\* ^\d{6,}$ on a stripped line
SoloDigitos6(c) == Len(c) >= 6 /\ \A k \in 1..Len(c) : EsDigito(c[k])

\* the position \s* ends at when it starts at j
RECURSIVE SaltaEspacios(_, _)
SaltaEspacios(t, j) ==
  IF j <= Len(t) /\ EsEspacio(t[j]) THEN SaltaEspacios(t, j + 1) ELSE j

---------------------------------------------------------------------------
(* 3.1) DNI *)

\* re.search(r'PER(\d{8})', texto_ocr) matches at i
MrzDniEn(t, i) ==
  /\ EnPos(t, <<"P","E","R">>, i)
  /\ OchoDigitosEn(t, i + 3)

\* group(1) of the first match, or None
mrz_dni_match(t) ==
  LET P == {i \in 1..Len(t) : MrzDniEn(t, i)}
  IN  IF P = {} THEN None ELSE SubSeq(t, Min(P) + 3, Min(P) + 10)

\* re.search(r'DNI\s*(\d{8})', texto_ocr, re.IGNORECASE) matches at i
DniTextoEn(t, i) ==
  /\ EnPosIC(t, <<"D","N","I">>, i)
  /\ OchoDigitosEn(t, SaltaEspacios(t, i + 3))

dni_match(t) ==
  LET P == {i \in 1..Len(t) : DniTextoEn(t, i)}
  IN  IF P = {} THEN None
      ELSE LET j == SaltaEspacios(t, Min(P) + 3) IN SubSeq(t, j, j + 7)

\* [-\s]
EsGuionOEspacio(c) == c = "-" \/ EsEspacio(c)

\* re.search(r'\b(\d{8})[-\s]?\d?\b', texto_ocr) matches at i
DniSoloEn(t, i) ==
  /\ Limite(t, i)
  /\ OchoDigitosEn(t, i)
  /\ LET k == i + 8
     IN  \/ k + 1 <= Len(t) /\ EsGuionOEspacio(t[k]) /\ EsDigito(t[k + 1]) /\ Limite(t, k + 2)
         \/ k <= Len(t) /\ EsGuionOEspacio(t[k]) /\ Limite(t, k + 1)
         \/ k <= Len(t) /\ EsDigito(t[k]) /\ Limite(t, k + 1)
         \/ Limite(t, k)

dni_solo(t) ==
  LET P == {i \in 1..Len(t) : DniSoloEn(t, i)}
  IN  IF P = {} THEN None ELSE SubSeq(t, Min(P), Min(P) + 7)

\* Lines 110-128 with strategy 2 tried before the MRZ.
datos_con_dni_texto_primero(d, t) ==
  IF dni_match(t) # None THEN Poner(d, "dni", dni_match(t))
  ELSE IF mrz_dni_match(t) # None THEN Poner(d, "dni", mrz_dni_match(t))
  ELSE IF dni_solo(t) # None THEN Poner(d, "dni", dni_solo(t))
  ELSE d

\* Lines 110-128 without strategy 3.
datos_con_dni_sin_fallback(d, t) ==
  IF mrz_dni_match(t) # None THEN Poner(d, "dni", mrz_dni_match(t))
  ELSE IF dni_match(t) # None THEN Poner(d, "dni", dni_match(t))
  ELSE d

\* Lines 110-128: the three strategies in their order.
datos_con_dni(d, t) ==
  IF mrz_dni_match(t) # None THEN Poner(d, "dni", mrz_dni_match(t))
  ELSE IF dni_match(t) # None THEN Poner(d, "dni", dni_match(t))
  ELSE IF dni_solo(t) # None THEN Poner(d, "dni", dni_solo(t))
  ELSE d

---------------------------------------------------------------------------
(* 3.2) Apellidos *)

\* re.search(r'(Primer|Segundo|Apellido)', linea, re.IGNORECASE)
EsClaveApellido(l) ==
  ContieneIC(l, <<"P","R","I","M","E","R">>) \/ ContieneIC(l, <<"S","E","G","U","N","D","O">>) \/ ContieneIC(l, <<"A","P","E","L","L","I","D","O">>)

\* Lines 144-152 accepting every candidate that passes line 148, spaces included.
AceptaApellido_con_espacios(c) ==
  /\ ~SoloDigitos6(c)
  /\ ~(Len(c) < 3 \/ \E k \in 1..Len(c) : ~EsMayusculaOEspacio(c[k]))

\* Lines 144-152: the candidate reaches the append
AceptaApellido(c) ==
  /\ ~SoloDigitos6(c)
  /\ ~(Len(c) < 3 \/ \E k \in 1..Len(c) : ~EsMayusculaOEspacio(c[k]))
  /\ Len(c) >= 1 /\ \A k \in 1..Len(c) : EsMayuscula(c[k])

\* The inner loop, lines 140-155, from line j to line hasta
RECURSIVE apellidos_ventana(_, _, _, _)
apellidos_ventana(ls, j, hasta, acc) ==
  IF j > hasta THEN acc
  ELSE LET candidato == Strip(ls[j])
       IN  apellidos_ventana(ls, j + 1, hasta,
             IF AceptaApellido(candidato) /\ ~EnLista(acc, candidato)
             THEN Append(acc, candidato) ELSE acc)

\* The outer loop, lines 137-155, from line i on
RECURSIVE apellidos_desde(_, _, _)
apellidos_desde(ls, i, acc) ==
  IF i > Len(ls) THEN acc
  ELSE apellidos_desde(ls, i + 1,
         IF EsClaveApellido(ls[i])
         THEN apellidos_ventana(ls, i + 1, MinDe(i + 5, Len(ls)), acc)
         ELSE acc)

\* Lines 158-161
datos_con_apellidos(d, ap) ==
  LET d1 == IF Len(ap) >= 1 THEN Poner(d, "apellido_paterno", ap[1]) ELSE d
  IN  IF Len(ap) >= 2 THEN Poner(d1, "apellido_materno", ap[2]) ELSE d1

---------------------------------------------------------------------------
(* 3.3) Nombres *)

\* the length of the run of [A-Z] a raw line begins with
RECURSIVE PrefijoAZ(_, _)
PrefijoAZ(l, n) ==
  IF n < Len(l) /\ EsAZ(l[n + 1]) THEN PrefijoAZ(l, n + 1) ELSE n

\* group(1) of ^[A-Z]{3,}<<([A-Z<]+)$ on one raw line, or None
MrzNombresGrupo(l) ==
  LET n == PrefijoAZ(l, 0)
  IN  IF /\ n >= 3
         /\ n + 3 <= Len(l)
         /\ l[n + 1] = "<" /\ l[n + 2] = "<"
         /\ \A k \in (n + 3)..Len(l) : EsAZ(l[k]) \/ l[k] = "<"
      THEN SubSeq(l, n + 3, Len(l))
      ELSE None

\* re.search(r'^[A-Z]{3,}<<([A-Z<]+)$', texto_ocr, re.MULTILINE): group(1) of
\* the first raw line that matches, or None
mrz_nombres(t) ==
  LET crudas == Split(t)
      P == {i \in 1..Len(crudas) : MrzNombresGrupo(crudas[i]) # None}
  IN  IF P = {} THEN None ELSE MrzNombresGrupo(crudas[Min(P)])

\* .replace('<', ' ')
ReemplazaRelleno(s) == [i \in 1..Len(s) |-> IF s[i] = "<" THEN " " ELSE s[i]]

\* Line 170: nombres_raw
nombres_raw(g) == Strip(ReemplazaRelleno(g))

\* Lines 168-174: the value strategy 1 stores, or None
nombres_mrz(t) ==
  LET g == mrz_nombres(t)
  IN  IF g = None THEN None
      ELSE IF nombres_raw(g) # <<>> /\ Len(nombres_raw(g)) > 2 THEN nombres_raw(g)
      ELSE None

\* re.search(r'(Pre\s*)?Nombres', linea, re.IGNORECASE): the optional group
\* matches nothing where "Pre" is absent, so the search is for "Nombres"
EsClaveNombres(l) == ContieneIC(l, <<"N","O","M","B","R","E","S">>)

\* re.match(r'^[A-ZÁÉÍÓÚÑ\s]+$', candidato) on a stripped line
SoloMayusculasYEspacios(c) ==
  Len(c) >= 1 /\ \A k \in 1..Len(c) : EsMayusculaOEspacio(c[k])

\* The inner loop, lines 181-196: the value stored, or None
RECURSIVE nombres_ventana(_, _, _, _)
nombres_ventana(ls, j, hasta, ap) ==
  IF j > hasta THEN None
  ELSE LET candidato == Strip(ls[j])
       IN  IF SoloDigitos6(candidato) THEN nombres_ventana(ls, j + 1, hasta, ap)
           ELSE IF /\ Len(candidato) >= 4
                   /\ SoloMayusculasYEspacios(candidato)
                   /\ ~EnLista(ap, candidato)
                THEN Strip(separar_nombres_pegados(candidato))
                ELSE nombres_ventana(ls, j + 1, hasta, ap)

\* The outer loop, lines 178-199, from line i on: the value stored, or None
RECURSIVE nombres_texto(_, _, _)
nombres_texto(ls, i, ap) ==
  IF i > Len(ls) THEN None
  ELSE IF EsClaveNombres(ls[i])
       THEN LET r == nombres_ventana(ls, i + 1, MinDe(i + 3, Len(ls)), ap)
            IN  IF r # None THEN r ELSE nombres_texto(ls, i + 1, ap)
       ELSE nombres_texto(ls, i + 1, ap)

\* re.match(r'^([A-ZÁÉÍÓÚÑ]{4,}\s+[A-ZÁÉÍÓÚÑ]{4,})$', linea.strip())
DosPalabras(l) ==
  \E a \in 4..Len(l) : \E b \in (a + 1)..Len(l) :
    /\ \A k \in 1..a : EsMayuscula(l[k])
    /\ \A k \in (a + 1)..b : EsEspacio(l[k])
    /\ Len(l) - b >= 4
    /\ \A k \in (b + 1)..Len(l) : EsMayuscula(l[k])

\* Lines 203-209: the value strategy 3 stores, or None
nombres_patron(ls, ap) ==
  LET P == {i \in 1..Len(ls) : DosPalabras(Strip(ls[i])) /\ ~EnLista(ap, Strip(ls[i]))}
  IN  IF P = {} THEN None ELSE Strip(ls[Min(P)])

\* Which strategy stores nombres: "mrz", "texto", "patron" or "ninguna"
origen_nombres(t, ls, ap) ==
  IF nombres_mrz(t) # None THEN "mrz"
  ELSE IF nombres_texto(ls, 1, ap) # None THEN "texto"
  ELSE IF nombres_patron(ls, ap) # None THEN "patron"
  ELSE "ninguna"

\* Lines 167-209
datos_con_nombres(d, t, ls, ap) ==
  IF nombres_mrz(t) # None THEN Poner(d, "nombres", nombres_mrz(t))
  ELSE IF nombres_texto(ls, 1, ap) # None THEN Poner(d, "nombres", nombres_texto(ls, 1, ap))
  ELSE IF nombres_patron(ls, ap) # None THEN Poner(d, "nombres", nombres_patron(ls, ap))
  ELSE d

---------------------------------------------------------------------------
(* 3.4) Fecha de nacimiento *)

\* re.search(r'Nacimiento', linea, re.IGNORECASE)
EsClaveNacimiento(l) == ContieneIC(l, <<"N","A","C","I","M","I","E","N","T","O">>)

\* re.search(r'\b(\d{8})\b', linea): group(1) of the first match, or None
fecha_raw(l) ==
  LET P == {i \in 1..Len(l) : Limite(l, i) /\ OchoDigitosEn(l, i) /\ Limite(l, i + 8)}
  IN  IF P = {} THEN None ELSE SubSeq(l, Min(P), Min(P) + 7)

\* (datetime.now() - fecha_nac).days // 365 on day h of Calendario, for the
\* "DD/MM/YYYY" text f
edad_de(f, h) ==
  (OrdinalDeHoy(h)
     - Ordinal(Entero(SubSeq(f, 7, 10)), Entero(SubSeq(f, 4, 5)), Entero(SubSeq(f, 1, 2))))
  \div 365

\* "YYYY-MM-DD" of the "DD/MM/YYYY" text f (line 237)
fecha_iso(f) == SubSeq(f, 7, 10) \o <<"-">> \o SubSeq(f, 4, 5) \o <<"-">> \o SubSeq(f, 1, 2)

\* Lines 223-241 for one line without the range check of edad.
fecha_de_linea_sin_rango(l, h) ==
  LET corregida == corregir_fecha_ocr(fecha_raw(l))
  IN  IF fecha_raw(l) = None \/ corregida = None THEN None ELSE corregida

\* Lines 223-241 for one line: the corrected date it stores, or None
fecha_de_linea(l, h) ==
  LET corregida == corregir_fecha_ocr(fecha_raw(l))
  IN  IF fecha_raw(l) = None \/ corregida = None THEN None
      ELSE IF 0 <= edad_de(corregida, h) /\ edad_de(corregida, h) <= 120 THEN corregida
      ELSE None

\* The inner loop, lines 221-243, from line j to line hasta
RECURSIVE fecha_ventana(_, _, _, _)
fecha_ventana(ls, j, hasta, h) ==
  IF j > hasta THEN None
  ELSE IF fecha_de_linea(ls[j], h) # None THEN fecha_de_linea(ls[j], h)
  ELSE fecha_ventana(ls, j + 1, hasta, h)

\* The outer loop, lines 218-246, from line i on
RECURSIVE fecha_desde(_, _, _)
fecha_desde(ls, i, h) ==
  IF i > Len(ls) THEN None
  ELSE IF EsClaveNacimiento(ls[i])
       THEN LET r == fecha_ventana(ls, i, MinDe(i + 5, Len(ls)), h)
            IN  IF r # None THEN r ELSE fecha_desde(ls, i + 1, h)
       ELSE fecha_desde(ls, i + 1, h)

\* Lines 215-246 where a text without an accepted date throws away what was
\* parsed before it.
datos_con_fecha_descarta(d, ls, h) ==
  LET f == fecha_desde(ls, 1, h)
  IN  IF f = None THEN DictVacio
      ELSE Poner(Poner(Poner(d, "fecha_nacimiento", f),
                       "fecha_nacimiento_iso", fecha_iso(f)),
                 "edad", edad_de(f, h))

\* Lines 215-246
datos_con_fecha(d, ls, h) ==
  LET f == fecha_desde(ls, 1, h)
  IN  IF f = None THEN d
      ELSE Poner(Poner(Poner(d, "fecha_nacimiento", f),
                       "fecha_nacimiento_iso", fecha_iso(f)),
                 "edad", edad_de(f, h))

---------------------------------------------------------------------------
(* 3.5) Sexo *)

\* re.search(r'(\d{6})([MF])(\d{7})', texto_ocr) matches at i
MrzSexoEn(t, i) ==
  /\ i >= 1 /\ i + 13 <= Len(t)
  /\ \A k \in 0..5 : EsDigito(t[i + k])
  /\ t[i + 6] \in {"M", "F"}
  /\ \A k \in 7..13 : EsDigito(t[i + k])

\* group(2) of the first match, as a str, or None
mrz_sexo_match(t) ==
  LET P == {i \in 1..Len(t) : MrzSexoEn(t, i)}
  IN  IF P = {} THEN None ELSE <<t[Min(P) + 6]>>

sexo_completo(sexo) == IF sexo = <<"M">> THEN <<"M","A","S","C","U","L","I","N","O">> ELSE <<"F","E","M","E","N","I","N","O">>

\* datos["sexo"] = sexo; datos["sexo_completo"] = ...
datos_con_sexo(d, sexo) == Poner(Poner(d, "sexo", sexo), "sexo_completo", sexo_completo(sexo))

\* re.search(r'Sexo', linea, re.IGNORECASE)
EsClaveSexo(l) == ContieneIC(l, <<"S","E","X","O">>)

\* Lines 262-271: only the first line naming "Sexo" is looked at (line 271
\* leaves the loop), and only its next two lines
sexo_texto(ls) ==
  LET P == {i \in 1..Len(ls) : EsClaveSexo(ls[i])}
  IN  IF P = {} THEN None
      ELSE LET i == Min(P)
               Q == {j \in (i + 1)..MinDe(i + 2, Len(ls)) :
                       ls[j] \in {<<"M">>, <<"F">>, <<"M","A","S","C","U","L","I","N","O">>, <<"F","E","M","E","N","I","N","O">>}}
           IN  IF Q = {} THEN None
               ELSE IF ls[Min(Q)] \in {<<"M">>, <<"M","A","S","C","U","L","I","N","O">>} THEN <<"M">> ELSE <<"F">>

---------------------------------------------------------------------------
(* 3.6) Estado civil *)

Letras == <<"S", "C", "D", "V">>

EsLetra(c) == \E i \in 1..Len(Letras) : Letras[i] = c

\* mapa[letra]
mapa(c) ==
  IF c = "S" THEN <<"S","O","L","T","E","R","O">>
  ELSE IF c = "C" THEN <<"C","A","S","A","D","O">>
  ELSE IF c = "D" THEN <<"D","I","V","O","R","C","I","A","D","O">>
  ELSE <<"V","I","U","D","O">>

\* re.search(r'Estado\s*Ci[vwtu][a-z]*', linea, re.IGNORECASE)
EsClaveEstadoCivil(l) ==
  \E i \in 1..Len(l) :
    /\ EnPosIC(l, <<"E","S","T","A","D","O">>, i)
    /\ LET j == SaltaEspacios(l, i + 6)
       IN  /\ EnPosIC(l, <<"C","I">>, j)
           /\ j + 2 <= Len(l)
           /\ MayusculaDe(l[j + 2]) \in {"V", "W", "T", "U"}

\* re.search(r'\b([SCDV])\b', linea_candidata): the first isolated letter, or None
letra_aislada(c) ==
  LET P == {i \in 1..Len(c) : EsLetra(c[i]) /\ Limite(c, i) /\ Limite(c, i + 1)}
  IN  IF P = {} THEN None ELSE <<c[Min(P)]>>

\* Lines 285-322 for one candidate line: the label stored, or None
estado_de_candidata(l) ==
  LET c == Strip(l)
  IN  IF Len(c) = 1 /\ EsLetra(c[1]) THEN mapa(c[1])
      ELSE IF Len(c) <= 3 /\ Len(c) = 1 /\ EsLetra(MayusculaDe(c[1])) THEN mapa(MayusculaDe(c[1]))
      ELSE IF letra_aislada(c) # None THEN mapa(letra_aislada(c)[1])
      ELSE None

\* The inner loop, lines 284-322
RECURSIVE estado_ventana(_, _, _)
estado_ventana(ls, j, hasta) ==
  IF j > hasta THEN None
  ELSE IF estado_de_candidata(ls[j]) # None THEN estado_de_candidata(ls[j])
  ELSE estado_ventana(ls, j + 1, hasta)

\* Strategy 1, lines 278-325, from line i on
RECURSIVE estado_clave(_, _)
estado_clave(ls, i) ==
  IF i > Len(ls) THEN None
  ELSE IF EsClaveEstadoCivil(ls[i])
       THEN LET r == estado_ventana(ls, i + 1, MinDe(i + 8, Len(ls)))
            IN  IF r # None THEN r ELSE estado_clave(ls, i + 1)
       ELSE estado_clave(ls, i + 1)

\* Lines 335-346 for one line: the first of S, C, D, V that linea.upper()
\* contains, when the line has at most 3 characters
letra_en_corta(l) ==
  LET P == {k \in 1..Len(Letras) : Contiene(Upper(l), <<Letras[k]>>)}
  IN  IF Len(l) <= 3 /\ P # {} THEN mapa(Letras[Min(P)]) ELSE None

\* The inner loop of strategy 2, lines 333-349: line 348 leaves it at the
\* first short line that holds a letter
RECURSIVE estado_cerca_ventana(_, _, _)
estado_cerca_ventana(ls, j, hasta) ==
  IF j > hasta THEN None
  ELSE IF letra_en_corta(ls[j]) # None THEN letra_en_corta(ls[j])
  ELSE estado_cerca_ventana(ls, j + 1, hasta)

\* Strategy 2, lines 328-352, from line i on
RECURSIVE estado_cerca(_, _)
estado_cerca(ls, i) ==
  IF i > Len(ls) THEN None
  ELSE IF ContieneIC(ls[i], <<"S","E","X","O">>) \/ ContieneIC(ls[i], <<"E","S","T","A","D","O">>)
       THEN LET r == estado_cerca_ventana(ls, i + 1, MinDe(i + 3, Len(ls)))
            IN  IF r # None THEN r ELSE estado_cerca(ls, i + 1)
       ELSE estado_cerca(ls, i + 1)

\* ' '.join(ls[desde..hasta])
RECURSIVE JoinEspacio(_, _, _)
JoinEspacio(ls, desde, hasta) ==
  IF desde > hasta THEN <<>>
  ELSE IF desde = hasta THEN ls[desde]
  ELSE ls[desde] \o <<" ">> \o JoinEspacio(ls, desde + 1, hasta)

\* Strategy 3, lines 355-372: the first one-letter line whose first occurrence
\* (lineas.index) has a keyword in the window of 3 lines before it
estado_fallback(ls) ==
  LET Cerca(i) ==
        LET idx == Min({k \in 1..Len(ls) : ls[k] = ls[i]})
            contexto == JoinEspacio(ls, MaxDe(1, idx - 3), idx)
        IN  ContieneIC(contexto, <<"E","S","T","A","D","O">>) \/ ContieneIC(contexto, <<"C","I","V","I","L">>)
              \/ ContieneIC(contexto, <<"S","E","X","O">>)
      P == {i \in 1..Len(ls) : Len(ls[i]) = 1 /\ EsLetra(ls[i][1]) /\ Cerca(i)}
  IN  IF P = {} THEN None ELSE mapa(ls[Min(P)][1])

\* Lines 278-372: the label the three strategies store, or None
estado_civil(ls) ==
  IF estado_clave(ls, 1) # None THEN estado_clave(ls, 1)
  ELSE IF estado_cerca(ls, 1) # None THEN estado_cerca(ls, 1)
  ELSE estado_fallback(ls)

\* d with estado_civil set when a strategy resolved it
datos_con_estado_civil(d, ls) ==
  IF estado_civil(ls) # None THEN Poner(d, "estado_civil", estado_civil(ls)) ELSE d

\* Lines 252-372.  The marital-status section sits inside the block of
\* `if "sexo" not in datos:` (line 261), so it runs only when the MRZ
\* strategy did not resolve sexo.
datos_con_sexo_y_estado_civil(d, t, ls) ==
  IF mrz_sexo_match(t) # None THEN datos_con_sexo(d, mrz_sexo_match(t))
  ELSE datos_con_estado_civil(
         IF sexo_texto(ls) # None THEN datos_con_sexo(d, sexo_texto(ls)) ELSE d,
         ls)

---------------------------------------------------------------------------
(* 3.7) Nombre completo *)

\* Lines 379-392
datos_con_nombre_completo(d) ==
  LET K == DOMAIN d
      d1 == IF {"nombres", "apellido_paterno", "apellido_materno"} \subseteq K
            THEN Poner(d, "nombre_completo",
                       d["nombres"] \o <<" ">> \o d["apellido_paterno"]
                         \o <<" ">> \o d["apellido_materno"])
            ELSE IF {"nombres", "apellido_paterno"} \subseteq K
            THEN Poner(d, "nombre_completo",
                       d["nombres"] \o <<" ">> \o d["apellido_paterno"])
            ELSE IF {"apellido_paterno", "apellido_materno"} \subseteq K
            THEN Poner(d, "nombre_completo",
                       d["apellido_paterno"] \o <<" ">> \o d["apellido_materno"])
            ELSE d
  IN  Poner(d1, "tipo_documento", <<"D","N","I">>)

---------------------------------------------------------------------------
(* 4) extraer_datos_dni, from the call of parsear_dni on *)

MensajeSinDni == <<"N","o"," ","s","e"," ","p","u","d","o"," ","d","e","t","e","c","t","a","r"," ","e","l"," ","D","N","I">>

\* Lines 432-446: `not datos.get("dni")` is true of a missing key and of ""
valor_retornado(d) ==
  IF "dni" \notin DOMAIN d \/ d["dni"] = <<>>
  THEN Poner(DictVacio, "error", MensajeSinDni)
  ELSE d

---------------------------------------------------------------------------
(* Inputs *)

\* Longest text, in blocks, built freely from BloquesLibres
MaxLineas == 2

\* Calls of extraer_datos_dni on one text
MaxLlamadas == 2

\* OCR blocks the free texts are built from
BloquesLibres ==
  { <<"P","E","R","0","4","5","1","2","3","9","8">>, <<"D","N","I"," ","9","9","9","9","9","9","9","9">>, <<"d","n","i">>, <<"0","0","1","2","3","4","5","6">>, <<"1","2","3","4","5","6","7","8","9">>,
    <<"1","2","3","4","5","6","7">>, <<"P","E","R","U","1","2","3","4","5","6","7","8">>, <<"1","2","3","4","5","6","7","8","-","9">>, <<" ">>, <<"G","A","R","C","I","A">>,
    <<"9","0","0","1","0","1","1","M","3","0","0","1","0","1","2">> }

RECURSIVE Secuencias(_, _)
Secuencias(S, n) ==
  IF n = 0 THEN {<<>>}
  ELSE LET R == Secuencias(S, n - 1)
       IN  R \cup {Append(r, x) : r \in {q \in R : Len(q) = n - 1}, x \in S}

TextosLibres == Secuencias(BloquesLibres, MaxLineas) \ {<<>>}

TokensFecha ==
  { <<"0","1","0","1","2","0","0","0">>, <<"0","1","0","1","2","0","2","6">>, <<"0","1","0","1","1","9","0","0">>, <<"1","5","1","1","1","9","0","5">>, <<"3","1","0","2","2","0","0","0">>,
    <<"3","5","0","4","2","0","0","0">>, <<"1","5","1","9","2","0","0","0">>, <<"1","5","0","6","2","0","6","2">> }

\* The card's printed layout: label, value, label, value, ...
TextosTarjeta ==
  { << <<"D","N","I","1","2","3","4","5","6","7","8">>, <<"P","R","I","M","E","R"," ","A","P","E","L","L","I","D","O">>, P, <<"S","E","G","U","N","D","O"," ","A","P","E","L","L","I","D","O">>, M,
       <<"P","R","E"," ","N","O","M","B","R","E","S">>, N, <<"F","E","C","H","A"," ","D","E"," ","N","A","C","I","M","I","E","N","T","O">>, F, <<"S","E","X","O">>, s >> :
      P \in {<<"G","A","R","C","I","A">>, <<"L","O","P","E","Z">>, <<"M","U","N~","O","Z">>},
      M \in {<<"G","A","R","C","I","A">>, <<"L","O","P","E","Z">>},
      N \in {<<"J","U","A","N","C","A","R","L","O","S">>, <<"Z","A","M","B","R","A","N","O">>, <<"J","O","S","E">>},
      F \in {<<"0","1","0","1","2","0","0","0">>, <<"3","5","0","4","2","0","0","0">>, <<"3","1","0","2","2","0","0","0">>, <<"0","1","0","1","2","0","2","6">>},
      s \in {<<"M">>, <<"F">>} }

\* Marital status after the sex field, resolved by the MRZ, by keyword or not at all
TextosEstadoCivil ==
  { sx \o <<e>> \o r \o <<l>> :
      sx \in { <<>>, << <<"9","0","0","1","0","1","1","M","3","0","0","1","0","1","2">> >>, << <<"S","e","x","o">>, <<"F">> >> },
      e \in { <<"E","s","t","a","d","o"," ","C","i","v","i","l">>, <<"E","S","T","A","D","O"," ","C","I","V","I","T">>, <<"E","s","t","a","d","o"," ","C","i","u">>, <<"C","i","v","i","l">> },
      r \in { <<>>, << <<"G","A","R","C","I","A">> >>,
              << <<"1">>, <<"2">>, <<"3">>, <<"4">>, <<"5">>, <<"6">>, <<"7">>, <<"8">> >> },
      l \in { <<"S">>, <<"C">>, <<"D">>, <<"V">>, <<"s">>, <<"M"," ","C">> } }

\* Surname candidates after a keyword line
TextosApellidos ==
  { <<k>> \o c :
      k \in { <<"P","r","i","m","e","r"," ","A","p","e","l","l","i","d","o">>, <<"S","E","G","U","N","D","O">> },
      c \in Secuencias({ <<"G","A","R","C","I","A">>, <<"L","O","P","E","Z">>, <<"D","E"," ","L","A"," ","C","R","U","Z">>, <<"A","B">>, <<"M","U","N~","O","Z">>,
                         <<"G","a","r","c","i","a">>, <<"2","0","1","2","3","4","5","6">> }, 2) }
  \cup
  { << <<"a","p","e","l","l","i","d","o">>, <<"1">>, <<"2">>, <<"3">>, <<"4">>, x, y >> :
      x \in { <<"G","A","R","C","I","A">>, <<"5">> }, y \in { <<"L","O","P","E","Z">>, <<"G","A","R","C","I","A">> } }

\* MRZ names lines, with and without a free-text fallback
TextosMrzNombres ==
  { <<m>> \o f :
      m \in { <<"G","A","R","C","I","A","<","<","J","U","A","N","<","C","A","R","L","O","S","<","<","<">>, <<"G","A","R","C","I","A","<","<","J","U","A","N","<","<","C","A","R","L","O","S">>, <<"G","A","R","C","I","A","<","<","A","<","B">>,
              <<"G","A","R","C","I","A","<","<","A","B">>, <<"G","A","R","C","I","A","<","<","<","<">>, <<"G","A","<","<","J","U","A","N">>, <<"L","O","P","E","Z","<","G","A","R","C","I","A","<","<","J","U","A","N">>,
              <<" ","G","A","R","C","I","A","<","<","J","U","A","N">> },
      f \in { <<>>, << <<"N","o","m","b","r","e","s">>, <<"2","0","1","2","3","4","5","6">>, <<"J","U","A","N","C","A","R","L","O","S">> >>,
              << <<"J","O","R","G","E"," ","L","U","I","S">> >> } }

\* Birth-date tokens after the keyword
TextosFecha ==
  { << <<"F","e","c","h","a"," ","d","e"," ","N","a","c","i","m","i","e","n","t","o">>, a, b >> : a \in TokensFecha, b \in TokensFecha }
  \cup { << <<"N","A","C","I","M","I","E","N","T","O"," ","2","9","0","2","2","0","0","1"," ","0","1","0","1","2","0","0","0">> >>, << <<"n","a","c","i","m","i","e","n","t","o",":"," ","2","9","0","2","2","0","0","0">> >>,
         << <<"N","a","c","i","m","i","e","n","t","o">>, <<"1">>, <<"2">>, <<"3">>, <<"4">>, <<"5">>, <<"0","1","0","1","2","0","0","0">> >> }

Textos ==
  TextosLibres \cup TextosTarjeta \cup TextosEstadoCivil \cup TextosApellidos
    \cup TextosMrzNombres \cup TextosFecha

---------------------------------------------------------------------------
(* The calls *)

SinLlamada ==
  /\ lineas = <<>>
  /\ datos = DictVacio
  /\ apellidos_encontrados = <<>>
  /\ historial = <<>>
  /\ llamadas = 0

Init ==
  /\ texto_ocr \in {Join(b) : b \in Textos}
  /\ hoy = 1
  /\ pc = "inicio"
  /\ SinLlamada
  /\ entrada = <<>>
  /\ salida = None

\* Line 430, then lines 101-102
Llamar ==
  /\ pc = "inicio"
  /\ llamadas < MaxLlamadas
  /\ llamadas' = llamadas + 1
  /\ datos' = DictVacio
  /\ lineas' = Lineas(texto_ocr)
  /\ apellidos_encontrados' = <<>>
  /\ pc' = "dni"
  /\ UNCHANGED <<texto_ocr, hoy, historial, entrada, salida>>

\* Lines 110-128
ParsearDni ==
  /\ pc = "dni"
  /\ datos' = datos_con_dni(datos, texto_ocr)
  /\ pc' = "apellidos"
  /\ UNCHANGED <<texto_ocr, hoy, lineas, apellidos_encontrados, historial,
                 llamadas, entrada, salida>>

\* Lines 134-161
ParsearApellidos ==
  /\ pc = "apellidos"
  /\ apellidos_encontrados' = apellidos_desde(lineas, 1, <<>>)
  /\ datos' = datos_con_apellidos(datos, apellidos_encontrados')
  /\ pc' = "nombres"
  /\ UNCHANGED <<texto_ocr, hoy, lineas, historial, llamadas, entrada, salida>>

\* Lines 167-209
ParsearNombres ==
  /\ pc = "nombres"
  /\ datos' = datos_con_nombres(datos, texto_ocr, lineas, apellidos_encontrados)
  /\ pc' = "fecha"
  /\ UNCHANGED <<texto_ocr, hoy, lineas, apellidos_encontrados, historial,
                 llamadas, entrada, salida>>

\* Lines 215-246; datetime.now() is read here
ParsearFecha ==
  /\ pc = "fecha"
  /\ datos' = datos_con_fecha(datos, lineas, hoy)
  /\ pc' = "sexo"
  /\ UNCHANGED <<texto_ocr, hoy, lineas, apellidos_encontrados, historial,
                 llamadas, entrada, salida>>

\* Lines 252-372
ParsearSexoYEstadoCivil ==
  /\ pc = "sexo"
  /\ datos' = datos_con_sexo_y_estado_civil(datos, texto_ocr, lineas)
  /\ pc' = "nombre_completo"
  /\ UNCHANGED <<texto_ocr, hoy, lineas, apellidos_encontrados, historial,
                 llamadas, entrada, salida>>

\* Lines 379-394
NombreCompleto ==
  /\ pc = "nombre_completo"
  /\ datos' = datos_con_nombre_completo(datos)
  /\ pc' = "retorno"
  /\ UNCHANGED <<texto_ocr, hoy, lineas, apellidos_encontrados, historial,
                 llamadas, entrada, salida>>

\* Lines 432-446; the clock has not moved since line 232 read it
Retornar ==
  /\ pc = "retorno"
  /\ historial' = Append(historial, [dia |-> hoy, retorno |-> valor_retornado(datos)])
  /\ pc' = "inicio"
  /\ UNCHANGED <<texto_ocr, hoy, lineas, datos, apellidos_encontrados, llamadas,
                 entrada, salida>>

\* The wall clock passes midnight between two calls
Reloj ==
  /\ pc = "inicio"
  /\ hoy < Len(Calendario)
  /\ hoy' = hoy + 1
  /\ UNCHANGED <<texto_ocr, pc, lineas, datos, apellidos_encontrados, historial,
                 llamadas, entrada, salida>>

Next ==
  \/ Llamar
  \/ ParsearDni
  \/ ParsearApellidos
  \/ ParsearNombres
  \/ ParsearFecha
  \/ ParsearSexoYEstadoCivil
  \/ NombreCompleto
  \/ Retornar
  \/ Reloj

Spec == Init /\ [][Next]_vars

---------------------------------------------------------------------------
(* corregir_fecha_ocr called on its own *)

DiasToken == { <<"0","0">>, <<"0","1">>, <<"0","5">>, <<"1","5">>, <<"2","8">>, <<"2","9">>, <<"3","0">>, <<"3","1">>, <<"3","2">>, <<"3","5">>, <<"3","9">>, <<"4","0">> }
MesesToken == { <<"0","0">>, <<"0","1">>, <<"0","2">>, <<"0","4">>, <<"0","6">>, <<"0","9">>, <<"1","0">>, <<"1","2">>, <<"1","3">>, <<"1","9">> }
AniosToken == { <<"0","0","0","0">>, <<"1","9","0","0">>, <<"2","0","0","0">>, <<"2","0","0","1">>, <<"2","0","0","2">>, <<"2","0","1","9">>, <<"2","0","2","4">>, <<"2","0","6","2">>, <<"2","9","1","9">> }

EntradasFecha ==
  { d \o m \o a : d \in DiasToken, m \in MesesToken, a \in AniosToken }
    \cup { <<>>, <<"0","1","0","1","2","0","0">>, <<"0","1","0","1","2","0","0","0","0">> }

InitFecha ==
  /\ entrada \in EntradasFecha
  /\ salida = None
  /\ pc = "corregir"
  /\ texto_ocr = <<>>
  /\ hoy = 1
  /\ SinLlamada

\* Lines 41-62
CorregirFecha ==
  /\ pc = "corregir"
  /\ salida' = corregir_fecha_ocr(entrada)
  /\ pc' = "corregida"
  /\ UNCHANGED <<texto_ocr, hoy, lineas, datos, apellidos_encontrados, historial,
                 llamadas, entrada>>

SpecFecha == InitFecha /\ [][CorregirFecha]_vars

---------------------------------------------------------------------------
(* separar_nombres_pegados called on its own *)

Sufijos ==
  { <<>>, <<"A">>, <<"N","A">>, <<"I","T","O">>, <<"L","U","I","S">>, <<"I","S","A","B","E","L">>, <<"C","A","R","L","O","S">>, <<" ","C","A","R","L","O","S">>, <<"A","N","A">>, <<"J","O">> }

EntradasNombre ==
  { nombres_comunes[k] \o s : k \in 1..Len(nombres_comunes), s \in Sufijos }
    \cup { <<"Z","A","M","B","R","A","N","O">>, <<"G","A","R","C","I","A">>, <<"M","U","N~","O","Z">>, <<"J","O","S">>, <<"F","E","C","H","A"," ","D","E"," ","N","A","C","I","M","I","E","N","T","O">> }

InitNombres ==
  /\ entrada \in EntradasNombre
  /\ salida = None
  /\ pc = "separar"
  /\ texto_ocr = <<>>
  /\ hoy = 1
  /\ SinLlamada

\* Lines 64-89
SepararNombres ==
  /\ pc = "separar"
  /\ salida' = separar_nombres_pegados(entrada)
  /\ pc' = "separado"
  /\ UNCHANGED <<texto_ocr, hoy, lineas, datos, apellidos_encontrados, historial,
                 llamadas, entrada>>

SpecNombres == InitNombres /\ [][SepararNombres]_vars

---------------------------------------------------------------------------
(* separar_nombres_pegados called on a candidate of the given-names keyword
   strategy, and once more on its own result *)

\* the candidates that pass the filter of line 189
CandidatosNombres ==
  { c \in EntradasNombre \cup { <<"R","O","S","A"," ","E","L","E","N","A"," ","G","A","R","C","I","A">>, <<"J","O","S","E"," "," ","L","U","I","S">> } :
      Len(c) >= 4 /\ SoloMayusculasYEspacios(c) }

InitNormalizador ==
  /\ entrada \in CandidatosNombres
  /\ salida = None
  /\ pc = "candidato"
  /\ texto_ocr = <<>>
  /\ hoy = 1
  /\ SinLlamada

\* Line 193: candidato = separar_nombres_pegados(candidato)
Normalizar ==
  /\ pc = "candidato"
  /\ salida' = separar_nombres_pegados(entrada)
  /\ pc' = "normalizado"
  /\ UNCHANGED <<texto_ocr, hoy, lineas, datos, apellidos_encontrados, historial,
                 llamadas, entrada>>

\* Lines 64-89 again, on the value the first call returned
Renormalizar ==
  /\ pc = "normalizado"
  /\ entrada' = salida
  /\ salida' = separar_nombres_pegados(salida)
  /\ pc' = "renormalizado"
  /\ UNCHANGED <<texto_ocr, hoy, lineas, datos, apellidos_encontrados, historial,
                 llamadas>>

SpecNormalizador == InitNormalizador /\ [][Normalizar \/ Renormalizar]_vars

---------------------------------------------------------------------------
(* Properties *)

Claves(d) == DOMAIN d

\* parsear_dni has run to its return statement: datos is the record it returns
Parseado == pc = "retorno"

\* extraer_datos_dni has just returned: the last entry of historial is its value
Retornado == pc = "inicio" /\ Len(historial) >= 1

\* ---- C1 ----------------------------------------------------------------

\* a single-word surname in capitals
EsPalabraMayuscula(c) == Len(c) >= 1 /\ \A k \in 1..Len(c) : EsMayuscula(c[k])

\* the lines are the card's label/value layout
DisposicionTarjeta ==
  /\ Len(lineas) = 11
  /\ Len(lineas[1]) = 11 /\ EmpiezaCon(lineas[1], <<"D","N","I">>) /\ OchoDigitosEn(lineas[1], 4)
  /\ lineas[2] = <<"P","R","I","M","E","R"," ","A","P","E","L","L","I","D","O">>
  /\ lineas[4] = <<"S","E","G","U","N","D","O"," ","A","P","E","L","L","I","D","O">>
  /\ lineas[6] = <<"P","R","E"," ","N","O","M","B","R","E","S">>
  /\ lineas[8] = <<"F","E","C","H","A"," ","D","E"," ","N","A","C","I","M","I","E","N","T","O">>
  /\ lineas[10] = <<"S","E","X","O">>
  /\ Len(lineas[3]) >= 3 /\ EsPalabraMayuscula(lineas[3])
  /\ Len(lineas[5]) >= 3 /\ EsPalabraMayuscula(lineas[5])
  /\ lineas[3] # lineas[5]
  /\ Len(lineas[7]) >= 4 /\ EsPalabraMayuscula(lineas[7])
  /\ lineas[7] # lineas[3] /\ lineas[7] # lineas[5]
  /\ SoloDigitos6(lineas[9]) /\ corregir_fecha_ocr(lineas[9]) # None
  /\ lineas[11] \in {<<"M">>, <<"F">>}

\* C1: on the card's label/value layout (DNI+8 digits, PRIMER APELLIDO, P,
\* SEGUNDO APELLIDO, M, PRE NOMBRES, N, FECHA DE NACIMIENTO, valid token, SEXO,
\* s) the record has dni = the 8 digits, apellido_paterno = P,
\* apellido_materno = M, nombres = separar_nombres_pegados(N),
\* nombre_completo = nombres + " " + P + " " + M, sexo = s and
\* tipo_documento = "DNI".
C1_TarjetaCompleta ==
  (Parseado /\ DisposicionTarjeta) =>
    /\ {"dni", "apellido_paterno", "apellido_materno", "nombres", "nombre_completo",
        "sexo", "tipo_documento"} \subseteq Claves(datos)
    /\ datos["dni"] = SubSeq(lineas[1], 4, 11)
    /\ datos["apellido_paterno"] = lineas[3]
    /\ datos["apellido_materno"] = lineas[5]
    /\ datos["nombres"] = separar_nombres_pegados(lineas[7])
    /\ datos["nombre_completo"] =
         datos["nombres"] \o <<" ">> \o lineas[3] \o <<" ">> \o lineas[5]
    /\ datos["sexo"] = lineas[11]
    /\ datos["tipo_documento"] = <<"D","N","I">>

\* ---- C2 ----------------------------------------------------------------

\* the text holds none of the three DNI patterns
SinDniEnTexto(t) ==
  /\ ~\E i \in 1..Len(t) : MrzDniEn(t, i)
  /\ ~\E i \in 1..Len(t) : DniTextoEn(t, i)
  /\ ~\E i \in 1..Len(t) : DniSoloEn(t, i)

EsErrorSinDni(r) == Claves(r) = {"error"} /\ r["error"] = MensajeSinDni

EsRegistroConDni(r) ==
  /\ "error" \notin Claves(r)
  /\ "dni" \in Claves(r)
  /\ Len(r["dni"]) = 8
  /\ \A k \in 1..8 : EsDigito(r["dni"][k])

\* C2: every value extraer_datos_dni returns after the OCR succeeded is either
\* a record with an 8-digit dni and no error, or the one error "No se pudo
\* detectar el DNI" with no other field; and it is the error exactly when the
\* text holds no PER+8 digits, no DNI keyword followed by 8 digits and no bare
\* 8-digit token.
C2_UnSoloResultado ==
  Retornado =>
    LET r == historial[Len(historial)].retorno
    IN  /\ EsErrorSinDni(r) \/ EsRegistroConDni(r)
        /\ EsErrorSinDni(r) <=> SinDniEnTexto(texto_ocr)

\* the error was returned although the parser had resolved other fields
C2_Testigo ==
  /\ Retornado
  /\ EsErrorSinDni(historial[Len(historial)].retorno)
  /\ "apellido_paterno" \in Claves(datos)

\* ---- C3 ----------------------------------------------------------------

PrimerMrzDni(t) == Min({i \in 1..Len(t) : MrzDniEn(t, i)})

\* C3: whenever the text holds "PER" followed by 8 digits, dni is the 8 digits
\* of the first such occurrence, whatever DNI+digits text or bare 8-digit
\* tokens the text also holds and wherever they stand.
C3_PrecedenciaMrz ==
  (Parseado /\ \E i \in 1..Len(texto_ocr) : MrzDniEn(texto_ocr, i)) =>
    /\ "dni" \in Claves(datos)
    /\ datos["dni"] = SubSeq(texto_ocr, PrimerMrzDni(texto_ocr) + 3,
                             PrimerMrzDni(texto_ocr) + 10)

\* a conflicting "DNI ########" stands before the MRZ token and loses
C3_Testigo ==
  /\ Parseado
  /\ \E i \in 1..Len(texto_ocr) : MrzDniEn(texto_ocr, i)
  /\ \E j \in 1..Len(texto_ocr) : DniTextoEn(texto_ocr, j) /\ j < PrimerMrzDni(texto_ocr)
  /\ dni_match(texto_ocr) # datos["dni"]
  /\ datos["dni"] = <<"0","4","5","1","2","3","9","8">>

\* ---- C4 ----------------------------------------------------------------

\* C4: when a line matching "Estado Ci"+suffix is followed within the next 8
\* lines by a line that is exactly one of S, C, D, V, with no isolated such
\* letter on the lines between, estado_civil is the mapped label, whichever
\* strategy resolved sexo.
C4_EstadoCivilTrasClave ==
  Parseado =>
    \A i \in 1..Len(lineas) : \A j \in (i + 1)..MinDe(i + 8, Len(lineas)) :
      ( /\ EsClaveEstadoCivil(lineas[i])
        /\ Len(lineas[j]) = 1 /\ EsLetra(lineas[j][1])
        /\ \A k \in (i + 1)..(j - 1) : letra_aislada(lineas[k]) = None )
      => /\ "estado_civil" \in Claves(datos)
         /\ datos["estado_civil"] = mapa(lineas[j][1])

\* ---- C5 ----------------------------------------------------------------

DiasPorMes == <<31, 28, 31, 30, 31, 30, 31, 31, 30, 31, 30, 31>>

\* day d of month m of year y exists in the calendar
EsFechaReal(y, m, d) ==
  /\ y >= 1 /\ m \in 1..12 /\ d >= 1
  /\ d <= DiasPorMes[m]
            + (IF m = 2 /\ y % 4 = 0 /\ (y % 100 # 0 \/ y % 400 = 0) THEN 1 ELSE 0)

\* C5: fecha_nacimiento, fecha_nacimiento_iso and edad are all present or all
\* absent; when present, fecha_nacimiento is DD/MM/YYYY of a real calendar
\* date, fecha_nacimiento_iso is the same date as YYYY-MM-DD, the date is not
\* after the current day and edad, derived from the current day, is in 0..120.
C5_FechaCoherente ==
  Parseado =>
  LET K == Claves(datos)
  IN  /\ ("fecha_nacimiento" \in K) = ("fecha_nacimiento_iso" \in K)
      /\ ("fecha_nacimiento" \in K) = ("edad" \in K)
      /\ "fecha_nacimiento" \in K =>
           LET f == datos["fecha_nacimiento"]
               iso == datos["fecha_nacimiento_iso"]
               y == Entero(SubSeq(f, 7, 10))
               m == Entero(SubSeq(f, 4, 5))
               d == Entero(SubSeq(f, 1, 2))
           IN  /\ Len(f) = 10 /\ f[3] = "/" /\ f[6] = "/"
               /\ \A k \in {1, 2, 4, 5, 7, 8, 9, 10} : EsDigito(f[k])
               /\ EsFechaReal(y, m, d)
               /\ iso = SubSeq(f, 7, 10) \o <<"-">> \o SubSeq(f, 4, 5) \o <<"-">> \o SubSeq(f, 1, 2)
               /\ datos["edad"] \in 0..120
               /\ Ordinal(y, m, d) <= OrdinalDeHoy(hoy)
               /\ datos["edad"] = (OrdinalDeHoy(hoy) - Ordinal(y, m, d)) \div 365

\* a token that is no calendar date was passed over and the next one stored
C5_Testigo ==
  /\ Parseado
  /\ Len(lineas) >= 3
  /\ lineas[2] = <<"3","1","0","2","2","0","0","0">>
  /\ "fecha_nacimiento" \in Claves(datos)
  /\ datos["fecha_nacimiento"] = <<"0","1","/","0","1","/","2","0","0","0">>
  /\ datos["edad"] = 25

\* ---- C6 ----------------------------------------------------------------

DosCifras(n) == <<Digitos[(n \div 10) + 1], Digitos[(n % 10) + 1]>>

CuatroCifras(n) == DosCifras(n \div 100) \o DosCifras(n % 100)

\* The reference: the three corrections on the numbers, then the calendar check
ReferenciaFecha(t) ==
  LET d0 == Entero(SubSeq(t, 1, 2))
      m0 == Entero(SubSeq(t, 3, 4))
      y0 == Entero(SubSeq(t, 5, 8))
      d == IF t[1] = "3" /\ d0 > 31 THEN d0 - 30 ELSE d0
      m == IF m0 = 19 THEN 10 ELSE m0
      y == IF y0 = 2062 THEN 2002 ELSE IF y0 = 2919 THEN 2019 ELSE y0
  IN  IF EsFechaReal(y, m, d)
      THEN DosCifras(d) \o <<"/">> \o DosCifras(m) \o <<"/">> \o CuatroCifras(y)
      ELSE None

\* C6: for every 8-digit token corregir_fecha_ocr returns what the reference
\* returns: day 32..39 becomes 0 + its second digit, month 19 becomes 10, year
\* 2062 becomes 2002 and 2919 becomes 2019, nothing else changes, and the
\* result is DD/MM/YYYY if that is a real calendar date and no value otherwise.
C6_CorrectorSegunReferencia ==
  (pc = "corregida" /\ Len(entrada) = 8) =>
    /\ salida = ReferenciaFecha(entrada)
    /\ entrada = <<"3","5","0","4","2","0","0","0">> => salida = <<"0","5","/","0","4","/","2","0","0","0">>
    /\ entrada = <<"1","5","0","6","2","0","6","2">> => salida = <<"1","5","/","0","6","/","2","0","0","2">>
    /\ entrada = <<"0","1","0","1","2","9","1","9">> => salida = <<"0","1","/","0","1","/","2","0","1","9">>
    /\ entrada = <<"1","5","1","9","2","0","0","0">> => salida = <<"1","5","/","1","0","/","2","0","0","0">>

\* the three corrections applied to one token
C6_Testigo ==
  /\ pc = "corregida"
  /\ entrada = <<"3","5","1","9","2","0","6","2">>
  /\ salida = <<"0","5","/","1","0","/","2","0","0","2">>

\* ---- C7 ----------------------------------------------------------------

\* The reference: the least vocabulary index that qualifies, if any
ReferenciaSeparar(t) ==
  LET Resto(k) == SubSeq(t, Len(nombres_comunes[k]) + 1, Len(t))
      Q == {k \in 1..Len(nombres_comunes) :
              /\ Len(nombres_comunes[k]) < Len(t)
              /\ SubSeq(t, 1, Len(nombres_comunes[k])) = nombres_comunes[k]
              /\ \/ \E n \in 1..Len(nombres_comunes) : nombres_comunes[n] = Resto(k)
                 \/ Len(Resto(k)) >= 3}
  IN  IF Q = {} THEN t ELSE nombres_comunes[Min(Q)] \o <<" ">> \o Resto(Min(Q))

TrasClaveApellido(j) ==
  \E i \in 1..Len(lineas) : EsClaveApellido(lineas[i]) /\ i < j /\ j <= i + 5

\* the acceptance rule as the claim words it: spaces allowed
CriterioConEspacios(c) ==
  /\ Len(c) >= 3
  /\ \A k \in 1..Len(c) : EsMayusculaOEspacio(c[k])
  /\ ~SoloDigitos6(c)

\* the acceptance rule without spaces
CriterioSinEspacios(c) ==
  /\ Len(c) >= 3
  /\ \A k \in 1..Len(c) : EsMayuscula(c[k])

\* the lines Criterio accepts among those after a keyword line
CandidatosConEspacios ==
  {j \in 1..Len(lineas) : TrasClaveApellido(j) /\ CriterioConEspacios(lineas[j])}

CandidatosSinEspacios ==
  {j \in 1..Len(lineas) : TrasClaveApellido(j) /\ CriterioSinEspacios(lineas[j])}

\* apellido_paterno and apellido_materno are the first and the second distinct
\* text, in line order, of the candidate lines P
ApellidosSegun(P) ==
  LET K == Claves(datos)
      P2 == {j \in P : lineas[j] # lineas[Min(P)]}
  IN  /\ ("apellido_paterno" \in K) = (P # {})
      /\ ("apellido_materno" \in K) = (P # {} /\ P2 # {})
      /\ P # {} => datos["apellido_paterno"] = lineas[Min(P)]
      /\ (P # {} /\ P2 # {}) =>
           /\ datos["apellido_materno"] = lineas[Min(P2)]
           /\ datos["apellido_materno"] # datos["apellido_paterno"]

\* C8 as claimed: the surnames are the first two entries of the duplicate-free
\* list of the candidates, within 5 lines after a keyword line, that have 3 or
\* more characters, only capitals, diacritics and spaces, and are no digit run.
C8_ApellidosConEspacios == Parseado => ApellidosSegun(CandidatosConEspacios)

\* C8 as amended: the same with a candidate accepted only if it has 3 or more
\* characters and consists only of capitals and diacritics, without spaces.
C8_ApellidosSinEspacios == Parseado => ApellidosSegun(CandidatosSinEspacios)

\* both surnames were assigned and a line with spaces in the window was passed over
C8_Testigo ==
  /\ Parseado
  /\ {"apellido_paterno", "apellido_materno"} \subseteq Claves(datos)
  /\ \E j \in 1..Len(lineas) :
       /\ TrasClaveApellido(j)
       /\ CriterioConEspacios(lineas[j]) /\ ~CriterioSinEspacios(lineas[j])
       /\ \E i \in 1..Len(lineas) : i > j /\ lineas[i] = datos["apellido_materno"]

\* ---- C9 ----------------------------------------------------------------

\* s with every run of spaces cut to one space
RECURSIVE UnSoloEspacio(_)
UnSoloEspacio(s) ==
  IF Len(s) <= 1 THEN s
  ELSE IF s[1] = " " /\ s[2] = " " THEN UnSoloEspacio(Tail(s))
  ELSE <<s[1]>> \o UnSoloEspacio(Tail(s))

\* the MRZ names group with each run of fillers as one space, trimmed
NombresMrzColapsados(g) == UnSoloEspacio(Strip(ReemplazaRelleno(g)))

NumLetras(s) == Cardinality({i \in 1..Len(s) : EsAZ(s[i])})

\* C9: when the text has an MRZ names line, nombres is its names group with
\* every run of fillers collapsed to one space and trimmed (no leading or
\* trailing space, no two adjacent spaces), unless that text has 2 or fewer
\* letters, in which case the MRZ value is not the one stored.
C9_NombresMrzColapsados ==
  (Parseado /\ mrz_nombres(texto_ocr) # None) =>
    LET v == NombresMrzColapsados(mrz_nombres(texto_ocr))
    IN  IF NumLetras(v) <= 2
        THEN origen_nombres(texto_ocr, lineas, apellidos_encontrados) # "mrz"
        ELSE "nombres" \in Claves(datos) /\ datos["nombres"] = v

\* ---- C10 ---------------------------------------------------------------

ClavesDeFecha == {"fecha_nacimiento", "fecha_nacimiento_iso", "edad"}

SinClavesDeFecha(r) == [k \in Claves(r) \ ClavesDeFecha |-> r[k]]

\* C10 as claimed: any two calls on the same text return the same value in
\* every field, edad included, whenever they run.
C10_MismoResultadoSiempre ==
  Retornado => \A i \in 1..Len(historial) : \A j \in 1..Len(historial) :
    historial[i].retorno = historial[j].retorno

\* C10 as amended: any two calls on the same text return the same value in
\* every field other than fecha_nacimiento, fecha_nacimiento_iso and edad, and
\* in those three too when both calls run on the same day.
C10_MismoResultadoSalvoFecha ==
  Retornado => \A i \in 1..Len(historial) : \A j \in 1..Len(historial) :
    /\ SinClavesDeFecha(historial[i].retorno) = SinClavesDeFecha(historial[j].retorno)
    /\ historial[i].dia = historial[j].dia =>
         historial[i].retorno = historial[j].retorno

\* two calls on different days differ, and only in the fields read off the clock
C10_Testigo ==
  /\ Retornado
  /\ Len(historial) >= 2
  /\ historial[1].dia # historial[2].dia
  /\ historial[1].retorno # historial[2].retorno
  /\ "dni" \in Claves(historial[1].retorno)
  /\ "edad" \in Claves(historial[1].retorno)


\* ---- C11 ---------------------------------------------------------------

\* c is two or more words with exactly one space between neighbours
YaSeparado(c) ==
  /\ \E k \in 1..Len(c) : c[k] = " "
  /\ c = UnSoloEspacio(Strip(c))

\* C11: separar_nombres_pegados is idempotent on the candidates of the
\* given-names keyword strategy (its result, normalised once more, is returned
\* unchanged), and a candidate that is already space-separated names is returned
\* unchanged, with single spaces between its words.
C11_NormalizadorIdempotente ==
  /\ pc = "renormalizado" => salida = entrada
  /\ (pc = "normalizado" /\ YaSeparado(entrada)) =>
       (salida = entrada /\ salida = UnSoloEspacio(salida))
=============================================================================
